---------------------------- MODULE Spec2Model ----------------------------
(***************************************************************************)
(* Model of the Flowise chat relay: the two variants src/app.py and        *)
(* src/aula07.py.  The pure helpers (extract_flowise_text,                 *)
(* limitar_historico, criar_historico_inicial, flowise_predict,            *)
(* flowise_upsert) are operators, the Flask routes are actions.            *)
(***************************************************************************)
EXTENDS Integers, Sequences, FiniteSets, TLC

VARIABLES
    variante,      \* which program runs: "app" (src/app.py) or "aula07" (src/aula07.py)
    envChatUrl,    \* TRUE iff FLOWISE_CHAT_URL is set in the environment
    agora,         \* the wall clock, in minutes after 00:00
    session,       \* the value stored under session["historico"]; <<>> when the key is absent
    criado,        \* history variable: the request that created the stored system message
    ult,           \* the request handled last: route, inputs, HTTP posts made
    resp,          \* the response of the request handled last
    entrada,       \* argument of the pure function under check
    saida,         \* its result in each variant
    envUpsertUrl,  \* TRUE iff FLOWISE_UPSERT_URL is set in the environment
    pcArq,         \* position of the enviar_arquivo handler
    arq,           \* the upload of the current enviar_arquivo request
    disco,         \* the files of the working directory
    nUpsert,       \* calls of flowise_upsert made by the current enviar_arquivo request
    nPosts,        \* HTTP posts made by the current enviar_arquivo request
    resposta,      \* the local variable resposta of enviar_arquivo
    respArq        \* the response of the enviar_arquivo request handled last

vars == <<variante, envChatUrl, agora, session, criado, ult, resp, entrada, saida,
          envUpsertUrl, pcArq, arq, disco, nUpsert, nPosts, resposta, respArq>>

varsSessao == <<variante, envChatUrl, agora, session, criado, ult, resp>>
varsPuro == <<entrada, saida>>
varsArq == <<envUpsertUrl, pcArq, arq, disco, nUpsert, nPosts, resposta, respArq>>

(***************************************************************************)
(* Bounds of the model.                                                    *)
(***************************************************************************)
MaxRelogio == 1     \* the clock runs from 00:00 to 00:MaxRelogio
MaxChaves == 2      \* keys of a mapping handed to extract_flowise_text
MaxHist == 4        \* length of a history handed to limitar_historico
MaxLimite == 2      \* max_mensagens handed to limitar_historico

Variantes == {"app", "aula07"}

(***************************************************************************)
(* Python values.  A decoded JSON value is a tagged record; a dict is the  *)
(* sequence of its <<key, value>> items in insertion order.                *)
(***************************************************************************)
JNull == [t |-> "null"]
JStr(s) == [t |-> "str", s |-> s]
JNum(n) == [t |-> "num", n |-> n]
JList(l) == [t |-> "list", l |-> l]
JDict(d) == [t |-> "dict", d |-> d]

\* Python truth value: None, "", 0, [] and {} are false
Truthy(v) ==
    CASE v.t = "null" -> FALSE
      [] v.t = "str"  -> v.s # ""
      [] v.t = "num"  -> v.n # 0
      [] v.t = "list" -> v.l # <<>>
      [] v.t = "dict" -> v.d # <<>>

IsDict(v) == v.t = "dict"
IsStr(v) == v.t = "str"

\* k in data
HasKey(data, k) == \E i \in 1..Len(data.d) : data.d[i][1] = k
\* data[k]
Item(data, k) == data.d[CHOOSE i \in 1..Len(data.d) : data.d[i][1] = k][2]
\* data.get(k, default)
DictGet(data, k, default) == IF HasKey(data, k) THEN Item(data, k) ELSE default

Digitos == <<"0", "1", "2", "3", "4", "5", "6", "7", "8", "9">>

RECURSIVE NatStr(_)
NatStr(n) ==
    IF n < 10 THEN Digitos[n + 1]
    ELSE NatStr(n \div 10) \o Digitos[(n % 10) + 1]

\* json.dumps(v, ensure_ascii=False), default separators
RECURSIVE json_dumps(_)
RECURSIVE DumpsItens(_)
RECURSIVE DumpsElems(_)
DumpsItens(d) ==
    IF d = <<>> THEN ""
    ELSE "\"" \o d[1][1] \o "\": " \o json_dumps(d[1][2])
         \o (IF Len(d) > 1 THEN ", " ELSE "") \o DumpsItens(Tail(d))
DumpsElems(l) ==
    IF l = <<>> THEN ""
    ELSE json_dumps(l[1]) \o (IF Len(l) > 1 THEN ", " ELSE "") \o DumpsElems(Tail(l))
json_dumps(v) ==
    CASE v.t = "null" -> "null"
      [] v.t = "str"  -> "\"" \o v.s \o "\""
      [] v.t = "num"  -> NatStr(v.n)
      [] v.t = "list" -> "[" \o DumpsElems(v.l) \o "]"
      [] v.t = "dict" -> "{" \o DumpsItens(v.d) \o "}"

\* repr(v) and str(v) of Python
RECURSIVE PyRepr(_)
RECURSIVE ReprItens(_)
RECURSIVE ReprElems(_)
ReprItens(d) ==
    IF d = <<>> THEN ""
    ELSE "'" \o d[1][1] \o "': " \o PyRepr(d[1][2])
         \o (IF Len(d) > 1 THEN ", " ELSE "") \o ReprItens(Tail(d))
ReprElems(l) ==
    IF l = <<>> THEN ""
    ELSE PyRepr(l[1]) \o (IF Len(l) > 1 THEN ", " ELSE "") \o ReprElems(Tail(l))
PyRepr(v) ==
    CASE v.t = "null" -> "None"
      [] v.t = "str"  -> "'" \o v.s \o "'"
      [] v.t = "num"  -> NatStr(v.n)
      [] v.t = "list" -> "[" \o ReprElems(v.l) \o "]"
      [] v.t = "dict" -> "{" \o ReprItens(v.d) \o "}"

PyStr(v) == IF v.t = "str" THEN v.s ELSE PyRepr(v)

\* the result of a call: a returned value or a raised exception
Ret(v) == [raised |-> "none", value |-> v]
Raise(e) == [raised |-> e]

(***************************************************************************)
(* extract_flowise_text                                                    *)
(***************************************************************************)
ChavesFallback == <<"result", "output", "message", "response">>

\* the for loop of src/app.py, from its i-th key on
RECURSIVE FallbackLoop(_, _)
FallbackLoop(data, i) ==
    IF i > Len(ChavesFallback) THEN JStr(json_dumps(data))
    ELSE IF HasKey(data, ChavesFallback[i]) /\ IsStr(Item(data, ChavesFallback[i]))
         THEN Item(data, ChavesFallback[i])
         ELSE FallbackLoop(data, i + 1)

extract_flowise_text_app_dataFirst(data) ==
    IF ~Truthy(data) THEN JNull
    ELSE IF IsDict(data) THEN
        IF HasKey(data, "text") /\ IsStr(Item(data, "text")) THEN Item(data, "text")
        ELSE IF HasKey(data, "data") /\ IsStr(Item(data, "data")) THEN Item(data, "data")
        ELSE IF HasKey(data, "answer") /\ IsStr(Item(data, "answer")) THEN Item(data, "answer")
        ELSE FallbackLoop(data, 1)
    ELSE IF IsStr(data) THEN data
    ELSE JStr(PyStr(data))

extract_flowise_text_app(data) ==
    IF ~Truthy(data) THEN JNull
    ELSE IF IsDict(data) THEN
        IF HasKey(data, "text") /\ IsStr(Item(data, "text")) THEN Item(data, "text")
        ELSE IF HasKey(data, "answer") /\ IsStr(Item(data, "answer")) THEN Item(data, "answer")
        ELSE IF HasKey(data, "data") /\ IsStr(Item(data, "data")) THEN Item(data, "data")
        ELSE FallbackLoop(data, 1)
    ELSE IF IsStr(data) THEN data
    ELSE JStr(PyStr(data))

extract_flowise_text_aula07(data) ==
    IF ~Truthy(data) THEN JNull
    ELSE IF IsDict(data) THEN
        IF HasKey(data, "text") /\ IsStr(Item(data, "text")) THEN Item(data, "text")
        ELSE IF HasKey(data, "answer") /\ IsStr(Item(data, "answer")) THEN Item(data, "answer")
        ELSE IF HasKey(data, "data") /\ IsStr(Item(data, "data")) THEN Item(data, "data")
        ELSE JStr(json_dumps(data))
    ELSE IF IsStr(data) THEN data
    ELSE JStr(PyStr(data))

extract_flowise_text(v, data) ==
    IF v = "app" THEN extract_flowise_text_app(data)
    ELSE extract_flowise_text_aula07(data)

(***************************************************************************)
(* criar_historico_inicial and limitar_historico                           *)
(***************************************************************************)
Msg(role, content) == [role |-> role, content |-> content]

DoisDigitos(n) == IF n < 10 THEN "0" \o NatStr(n) ELSE NatStr(n)
\* hora_atual.strftime('%H:%M')
strftime_HM(t) == DoisDigitos((t \div 60) % 24) \o ":" \o DoisDigitos(t % 60)

\* the system prompt of each variant (the text of aula07 abridged after the clock)
system_prompt(v, t) ==
    IF v = "app"
    THEN "Assistente juridico virtual. Horario atual: " \o strftime_HM(t) \o "."
    ELSE "Voce e um assistente juridico virtual renomado [...] Horario atual: "
         \o strftime_HM(t) \o ". Contexto: [...]"

criar_historico_inicial(v, t) == << Msg("system", system_prompt(v, t)) >>

\* s[-n:] of Python for n >= 0: -0 is 0, so s[-0:] is the whole of s
SliceUltimos(s, n) ==
    IF n = 0 \/ n >= Len(s) THEN s
    ELSE SubSeq(s, Len(s) - n + 1, Len(s))

LimitarCorpo_primeiros(mensagens, max_mensagens) ==
    LET restante == Tail(mensagens)
    IN  <<mensagens[1]>> \o (IF Len(restante) > max_mensagens
                             THEN SubSeq(restante, 1, max_mensagens)
                             ELSE restante)

LimitarCorpo_semSistema(mensagens, max_mensagens) ==
    IF Len(mensagens) > max_mensagens + 1
    THEN SubSeq(mensagens, Len(mensagens) - max_mensagens, Len(mensagens))
    ELSE mensagens

LimitarCorpo_maisUm(mensagens, max_mensagens) ==
    LET restante == Tail(mensagens)
    IN  <<mensagens[1]>> \o (IF Len(restante) > max_mensagens + 1
                             THEN SliceUltimos(restante, max_mensagens + 1)
                             ELSE restante)

\* the body shared by both variants, for a non-empty mensagens
LimitarCorpo(mensagens, max_mensagens) ==
    LET system_msg == mensagens[1]
        restante == Tail(mensagens)
        cortado == IF Len(restante) > max_mensagens
                   THEN SliceUltimos(restante, max_mensagens)
                   ELSE restante
    IN  <<system_msg>> \o cortado

\* src/app.py: mensagens[0] of an empty list raises IndexError
limitar_historico_app(mensagens, max_mensagens) ==
    IF mensagens = <<>> THEN Raise("IndexError")
    ELSE Ret(LimitarCorpo(mensagens, max_mensagens))

\* src/aula07.py: an empty list is replaced by the initial history
limitar_historico_aula07(mensagens, max_mensagens, t) ==
    IF mensagens = <<>> THEN Ret(criar_historico_inicial("aula07", t))
    ELSE Ret(LimitarCorpo(mensagens, max_mensagens))

limitar_historico(v, mensagens, max_mensagens, t) ==
    IF v = "app" THEN limitar_historico_app(mensagens, max_mensagens)
    ELSE limitar_historico_aula07(mensagens, max_mensagens, t)


(***************************************************************************)
(* The request body of /enviar_mensagem and str.strip().  A string of the  *)
(* request is the sequence of its characters.                              *)
(***************************************************************************)
Brancos == {" ", "\n", "\t"}

RECURSIVE lstrip(_)
lstrip(cs) == IF cs # <<>> /\ Head(cs) \in Brancos THEN lstrip(Tail(cs)) ELSE cs

RECURSIVE rstrip(_)
rstrip(cs) ==
    IF cs # <<>> /\ cs[Len(cs)] \in Brancos THEN rstrip(SubSeq(cs, 1, Len(cs) - 1)) ELSE cs

strip_ausente(cs) == cs

strip(cs) == rstrip(lstrip(cs))

RECURSIVE Junta(_)
Junta(cs) == IF cs = <<>> THEN "" ELSE Head(cs) \o Junta(Tail(cs))

\* (dados.get("mensagem") or "").strip(): a missing key and a null are ""
mensagem_usuario(m) == Junta(strip(IF m.tipo = "str" THEN m.chars ELSE <<>>))

(***************************************************************************)
(* flowise_predict.  s is what the HTTP exchange does once it is made:     *)
(* a timeout, an HTTP error status, a network failure, a body that is not  *)
(* JSON, or a 2xx JSON body.  The accents of the messages are dropped.     *)
(***************************************************************************)
ErroEstruturado(msg) ==
    JDict(<< <<"error", JDict(<< <<"message", JStr(msg)>> >>)>> >>)

\* resp.json() of a body that is not JSON raises the exception class s.classe:
\* requests' JSONDecodeError, a RequestException
flowise_predict_app(url, s) ==
    IF ~url
    THEN [res |-> Ret(ErroEstruturado("FLOWISE_CHAT_URL nao configurada no .env")), posts |-> 0]
    ELSE [posts |-> 1,
          res |->
            CASE s.tipo = "timeout" ->
                   Ret(ErroEstruturado("Timeout: Flowise demorou para responder"))
              [] s.tipo \in {"http_error", "conexao"} ->
                   Ret(ErroEstruturado("Erro na requisicao Flowise: " \o s.texto))
              [] s.tipo = "json_invalido" ->
                   IF s.classe = "RequestException"
                   THEN Ret(ErroEstruturado("Erro na requisicao Flowise: " \o s.texto))
                   ELSE Raise("JSONDecodeError")
              [] s.tipo = "ok" -> Ret(s.corpo)]

flowise_predict_aula07(url, s) ==
    IF ~url
    THEN [res |-> Ret(ErroEstruturado("FLOWISE_CHAT_URL nao encontrada no arquivo .env")), posts |-> 0]
    ELSE [posts |-> 1,
          res |->
            CASE s.tipo = "timeout" ->
                   Ret(ErroEstruturado("Timeout: Flowise demorou muito para responder"))
              [] s.tipo = "http_error" ->
                   Ret(ErroEstruturado("Erro HTTP " \o NatStr(s.status) \o ": " \o s.texto
                                       \o " | Corpo: " \o s.corpo))
              [] s.tipo = "conexao" ->
                   Ret(ErroEstruturado("Erro na requisicao: " \o s.texto))
              [] s.tipo = "json_invalido" ->
                   IF s.classe = "RequestException"
                   THEN Ret(ErroEstruturado("Erro na requisicao: " \o s.texto))
                   ELSE Ret(ErroEstruturado("Erro inesperado: " \o s.texto))
              [] s.tipo = "ok" -> Ret(s.corpo)]

flowise_predict(v, url, s) ==
    IF v = "app" THEN flowise_predict_app(url, s) ELSE flowise_predict_aula07(url, s)

(***************************************************************************)
(* The routes /, /enviar_mensagem and /limpar_historico.                   *)
(***************************************************************************)
max_mensagens_padrao == 20

RespJson(http, texto, status) ==
    [tipo |-> "json", http |-> http, corpo |-> [resposta |-> texto, status |-> status]]
\* an exception leaves the view function: Flask answers 500 without the
\* resposta and status keys (the 500 handler, or the debugger page)
RespExcecao(e) == [tipo |-> "excecao", http |-> 500, excecao |-> e]

Nenhuma == [tipo |-> "nenhuma"]
\* what the model keeps of a request: its route and inputs, the HTTP posts it
\* made, the stored history it found and the time it ran at
Pedido(rota, m, s, posts, antes, t) ==
    [rota |-> rota, mensagem |-> m, saida |-> s, posts |-> posts, antes |-> antes, hora |-> t]

\* isinstance(resposta_json, dict) and resposta_json.get("error")
TemErro(resposta_json) ==
    IsDict(resposta_json) /\ Truthy(DictGet(resposta_json, "error", JNull))

RespostaDeErro_semMensagem(resposta_json) ==
    IF ~IsDict(Item(resposta_json, "error")) THEN RespExcecao("AttributeError")
    ELSE RespJson(500, "Ops! Tive um problema", "erro")

\* msg = resposta_json["error"].get("message", ...) and the 500 response built
\* from it; .get of a value that is no dict raises AttributeError
RespostaDeErro(resposta_json) ==
    IF ~IsDict(Item(resposta_json, "error")) THEN RespExcecao("AttributeError")
    ELSE RespJson(500,
                  "Ops! Tive um problema: "
                    \o PyStr(DictGet(Item(resposta_json, "error"), "message",
                                     JStr("Erro desconhecido no Flowise"))),
                  "erro")

\* the view function enviar_mensagem: the value stored under
\* session["historico"] afterwards, the response and the HTTP posts made.
\* The list read from the session is appended to in place, which does not mark
\* the session modified: only the assignment session["historico"] = historico
\* stores a new value.
enviar_mensagem(v, url, t, sess, m, s) ==
    IF mensagem_usuario(m) = ""
    THEN [session |-> sess, posts |-> 0, resp |-> RespJson(400, "Mensagem vazia", "erro")]
    ELSE
      LET historico0 == IF sess # <<>> THEN sess ELSE criar_historico_inicial(v, t)
          comUsuario == Append(historico0, Msg("user", mensagem_usuario(m)))
          limitado == limitar_historico(v, comUsuario, max_mensagens_padrao, t)
          pred == flowise_predict(v, url, s)
      IN  IF limitado.raised # "none"
          THEN [session |-> sess, posts |-> 0, resp |-> RespExcecao(limitado.raised)]
          ELSE IF pred.res.raised # "none"
          THEN [session |-> sess, posts |-> pred.posts, resp |-> RespExcecao(pred.res.raised)]
          ELSE IF TemErro(pred.res.value)
          THEN [session |-> sess, posts |-> pred.posts, resp |-> RespostaDeErro(pred.res.value)]
          ELSE
            LET texto_ia == extract_flowise_text(v, pred.res.value)
            IN  IF ~Truthy(texto_ia)
                THEN [session |-> sess, posts |-> pred.posts,
                      resp |-> RespJson(500, "Nao consegui obter resposta do Flowise.", "erro")]
                ELSE [session |-> Append(limitado.value, Msg("assistant", texto_ia.s)),
                      posts |-> pred.posts,
                      resp |-> RespJson(200, texto_ia.s, "sucesso")]

\* the "mensagem" member of the request body: missing, null or a string
Mensagens ==
    { [tipo |-> "ausente"], [tipo |-> "null"] }
    \cup { [tipo |-> "str", chars |-> cs] :
             cs \in { <<>>, <<" ">>, <<" ", "\n", "\t">>, <<"a">>, <<" ", "a", "\n">> } }

\* 2xx bodies: texts, empty values, and bodies that carry an error key
CorposOk ==
    { JDict(<< <<"text", JStr("A")>> >>),
      JDict(<< <<"data", JStr("B")>>, <<"answer", JStr("A")>> >>),
      JDict(<< <<"error", JStr("")>>, <<"text", JStr("A")>> >>),
      JStr("A"),
      JNull, JStr(""), JNum(0), JDict(<<>>), JList(<<>>),
      ErroEstruturado("M"),
      JDict(<< <<"error", JDict(<< <<"code", JNum(5)>> >>)>> >>),
      JDict(<< <<"error", JDict(<< <<"message", JNum(5)>> >>)>> >>),
      JDict(<< <<"error", JStr("quota")>> >>),
      JDict(<< <<"error", JNum(5)>> >>),
      JDict(<< <<"error", JList(<<JStr("x")>>)>>, <<"text", JStr("A")>> >>) }

Saidas ==
    { [tipo |-> "timeout"],
      [tipo |-> "http_error", status |-> 503, texto |-> "503 Server Error", corpo |-> "busy"],
      [tipo |-> "conexao", texto |-> "Connection refused"],
      [tipo |-> "json_invalido", classe |-> "RequestException", texto |-> "Expecting value"] }
    \cup { [tipo |-> "ok", corpo |-> c] : c \in CorposOk }

SemCriador == [por |-> "ninguem"]

Init ==
    /\ variante \in Variantes
    /\ envChatUrl \in BOOLEAN
    /\ agora = 0
    /\ session = <<>>
    /\ criado = SemCriador
    /\ ult = [rota |-> "nenhuma"]
    /\ resp = [tipo |-> "nenhuma"]
    /\ entrada = [estado |-> "pendente"]
    /\ saida = [estado |-> "pendente"]
    /\ envUpsertUrl = TRUE
    /\ pcArq = "ocioso"
    /\ arq = [presente |-> FALSE]
    /\ disco = {}
    /\ nUpsert = 0
    /\ nPosts = 0
    /\ resposta = JNull
    /\ respArq = [tipo |-> "nenhuma"]

\* the clock advances
Tick ==
    /\ agora < MaxRelogio
    /\ agora' = agora + 1
    /\ UNCHANGED <<variante, envChatUrl, session, criado, ult, resp, varsPuro, varsArq>>

\* GET /
Index ==
    /\ session' = criar_historico_inicial(variante, agora)
    /\ criado' = [por |-> "index", msg |-> criar_historico_inicial(variante, agora)[1]]
    /\ ult' = Pedido("index", [tipo |-> "ausente"], Nenhuma, 0, session, agora)
    /\ resp' = [tipo |-> "template", http |-> 200, template |-> "index.html"]
    /\ UNCHANGED <<variante, envChatUrl, agora, varsPuro, varsArq>>

\* POST /enviar_mensagem with body member m, the HTTP exchange doing s
EnviarMensagem(m, s) ==
    LET r == enviar_mensagem(variante, envChatUrl, agora, session, m, s)
    IN  /\ session' = r.session
        /\ criado' = IF session = <<>> /\ r.session # <<>>
                     THEN [por |-> "enviar_mensagem", msg |-> criar_historico_inicial(variante, agora)[1]]
                     ELSE criado
        /\ ult' = Pedido("enviar_mensagem", m, IF r.posts = 1 THEN s ELSE Nenhuma, r.posts,
                       session, agora)
        /\ resp' = r.resp
        /\ UNCHANGED <<variante, envChatUrl, agora, varsPuro, varsArq>>

\* POST /limpar_historico
LimparHistorico ==
    /\ session' = criar_historico_inicial(variante, agora)
    /\ criado' = [por |-> "limpar_historico", msg |-> criar_historico_inicial(variante, agora)[1]]
    /\ ult' = Pedido("limpar_historico", [tipo |-> "ausente"], Nenhuma, 0, session, agora)
    /\ resp' = [tipo |-> "json", http |-> 200,
                corpo |-> [status |-> "sucesso", mensagem |-> "Historico limpo"]]
    /\ UNCHANGED <<variante, envChatUrl, agora, varsPuro, varsArq>>

\* the HTTP exchange has an outcome only when the handler makes it
SaidasDe(m) ==
    IF mensagem_usuario(m) = "" \/ ~envChatUrl THEN {Nenhuma} ELSE Saidas

Next ==
    \/ Tick
    \/ Index
    \/ \E m \in Mensagens : \E s \in SaidasDe(m) : EnviarMensagem(m, s)
    \/ LimparHistorico

Spec == Init /\ [][Next]_vars

(***************************************************************************)
(* States of the parts a specification leaves idle.                        *)
(***************************************************************************)
SemPedido == [rota |-> "nenhuma"]
SemResposta == [tipo |-> "nenhuma"]
Pendente == [estado |-> "pendente"]

SessaoOciosa ==
    /\ variante = "app"
    /\ envChatUrl = TRUE
    /\ session = <<>>
    /\ criado = SemCriador
    /\ ult = SemPedido
    /\ resp = SemResposta

PuroOcioso ==
    /\ entrada = Pendente
    /\ saida = Pendente

ArqOcioso ==
    /\ envUpsertUrl = TRUE
    /\ pcArq = "ocioso"
    /\ arq = [presente |-> FALSE]
    /\ disco = {}
    /\ nUpsert = 0
    /\ nPosts = 0
    /\ resposta = JNull
    /\ respArq = SemResposta

(***************************************************************************)
(* SpecLimitar: limitar_historico of both variants applied to a history.   *)
(***************************************************************************)
MsgsTeste ==
    { Msg("system", "s"), Msg("user", "a"), Msg("user", "b"), Msg("assistant", "r") }

HistoricosTeste == UNION { [1..k -> MsgsTeste] : k \in 0..MaxHist }

InitLimitar ==
    /\ entrada \in [h : HistoricosTeste, n : 0..MaxLimite]
    /\ saida = Pendente
    /\ agora \in 0..MaxRelogio
    /\ SessaoOciosa
    /\ ArqOcioso

AplicarLimitar ==
    /\ saida = Pendente
    /\ saida' = [estado |-> "feito",
                 app |-> limitar_historico_app(entrada.h, entrada.n),
                 aula07 |-> limitar_historico_aula07(entrada.h, entrada.n, agora)]
    /\ UNCHANGED <<entrada, varsSessao, varsArq>>

NextLimitar == AplicarLimitar

SpecLimitar == InitLimitar /\ [][NextLimitar]_vars

(***************************************************************************)
(* SpecExtract: extract_flowise_text of both variants applied to a value.  *)
(***************************************************************************)
ChavesTeste ==
    {"text", "answer", "data", "result", "output", "message", "response", "foo"}
ValoresTeste == { JStr("A"), JStr("B"), JStr(""), JNum(5) }
ItensTeste == { <<k, v>> : k \in ChavesTeste, v \in ValoresTeste }

ChavesDistintas(d) == \A i, j \in 1..Len(d) : i # j => d[i][1] # d[j][1]

DictsTeste ==
    { JDict(d) : d \in { x \in UNION { [1..k -> ItensTeste] : k \in 0..MaxChaves } :
                         ChavesDistintas(x) } }

CorposTeste ==
    DictsTeste \cup { JNull, JStr(""), JStr("A"), JNum(0), JNum(5),
                      JList(<<>>), JList(<<JNum(1), JStr("A")>>) }

InitExtract ==
    /\ entrada \in CorposTeste
    /\ saida = Pendente
    /\ agora = 0
    /\ SessaoOciosa
    /\ ArqOcioso

AplicarExtract ==
    /\ saida = Pendente
    /\ saida' = [estado |-> "feito",
                 app |-> extract_flowise_text_app(entrada),
                 aula07 |-> extract_flowise_text_aula07(entrada)]
    /\ UNCHANGED <<entrada, varsSessao, varsArq>>

NextExtract == AplicarExtract

SpecExtract == InitExtract /\ [][NextExtract]_vars


(***************************************************************************)
(* SpecArquivo: the route /enviar_arquivo of src/app.py, one statement     *)
(* group at a time, and flowise_upsert.                                    *)
(***************************************************************************)
ErroSimples(msg) == JDict(<< <<"error", JStr(msg)>> >>)

\* flowise_upsert: the value returned and the HTTP posts made.  s is what
\* opening the file and the HTTP exchange do; every exception raised inside
\* the try block is turned into {"error": str(e)}
flowise_upsert(url, s) ==
    IF ~url
    THEN [value |-> ErroSimples("FLOWISE_UPSERT_URL nao configurada no .env"), posts |-> 0]
    ELSE CASE s.tipo = "erro_abrir" -> [value |-> ErroSimples(s.texto), posts |-> 0]
           [] s.tipo \in {"timeout", "http_error", "conexao", "json_invalido"} ->
                [value |-> ErroSimples(s.texto), posts |-> 1]
           [] s.tipo = "ok" -> [value |-> s.corpo, posts |-> 1]

\* request.files["arquivo"]: missing, with an empty filename, or a named file
Uploads ==
    { [presente |-> FALSE], [presente |-> TRUE, filename |-> ""] }
    \cup { [presente |-> TRUE, filename |-> f] : f \in {"a.pdf", "b.txt"} }

SaidasUpsert ==
    { [tipo |-> "erro_abrir", texto |-> "Permission denied"],
      [tipo |-> "timeout", texto |-> "Read timed out"],
      [tipo |-> "http_error", texto |-> "500 Server Error"],
      [tipo |-> "conexao", texto |-> "Connection refused"],
      [tipo |-> "json_invalido", texto |-> "Expecting value"] }
    \cup { [tipo |-> "ok", corpo |-> c] :
             c \in { JDict(<< <<"numAdded", JNum(3)>> >>), JDict(<<>>),
                     ErroSimples("upstream"), JList(<<>>) } }

InitArquivo ==
    /\ envUpsertUrl \in BOOLEAN
    /\ pcArq = "ocioso"
    /\ arq = [presente |-> FALSE]
    /\ disco = {}
    /\ nUpsert = 0
    /\ nPosts = 0
    /\ resposta = JNull
    /\ respArq = SemResposta
    /\ agora = 0
    /\ SessaoOciosa
    /\ PuroOcioso

\* lines 151-159: the two 400 exits, or the upload saved to ./<filename>
ReceberArquivo(a) ==
    /\ pcArq = "ocioso"
    /\ arq' = a
    /\ nUpsert' = 0
    /\ nPosts' = 0
    /\ resposta' = JNull
    /\ IF ~a.presente
       THEN /\ respArq' = [tipo |-> "json", http |-> 400,
                           corpo |-> [status |-> "erro", mensagem |-> "Nenhum arquivo enviado"]]
            /\ UNCHANGED <<pcArq, disco>>
       ELSE IF a.filename = ""
       THEN /\ respArq' = [tipo |-> "json", http |-> 400,
                           corpo |-> [status |-> "erro", mensagem |-> "Arquivo invalido"]]
            /\ UNCHANGED <<pcArq, disco>>
       ELSE /\ disco' = disco \cup {a.filename}
            /\ pcArq' = "salvo"
            /\ UNCHANGED respArq
    /\ UNCHANGED <<envUpsertUrl, agora, varsSessao, varsPuro>>

\* lines 161-165: resposta = flowise_upsert(file_path=caminho_temp, ...)
ChamarUpsert(s) ==
    /\ pcArq = "salvo"
    /\ resposta' = flowise_upsert(envUpsertUrl, s).value
    /\ nUpsert' = nUpsert + 1
    /\ nPosts' = nPosts + flowise_upsert(envUpsertUrl, s).posts
    /\ pcArq' = "chamado"
    /\ UNCHANGED <<envUpsertUrl, arq, disco, respArq, agora, varsSessao, varsPuro>>

RemoverTemp_soNoSucesso ==
    /\ pcArq = "chamado"
    /\ disco' = IF IsDict(resposta) /\ HasKey(resposta, "error")
                THEN disco
                ELSE disco \ {arq.filename}
    /\ pcArq' = "a_responder"
    /\ UNCHANGED <<envUpsertUrl, arq, nUpsert, nPosts, resposta, respArq, agora,
                   varsSessao, varsPuro>>

\* line 167: os.remove(caminho_temp)
RemoverTemp ==
    /\ pcArq = "chamado"
    /\ disco' = disco \ {arq.filename}
    /\ pcArq' = "a_responder"
    /\ UNCHANGED <<envUpsertUrl, arq, nUpsert, nPosts, resposta, respArq, agora,
                   varsSessao, varsPuro>>

\* line 168: return jsonify(resposta)
ResponderArquivo ==
    /\ pcArq = "a_responder"
    /\ respArq' = [tipo |-> "json", http |-> 200, corpo |-> resposta]
    /\ pcArq' = "ocioso"
    /\ UNCHANGED <<envUpsertUrl, arq, disco, nUpsert, nPosts, resposta, agora,
                   varsSessao, varsPuro>>

NextArquivo ==
    \/ \E a \in Uploads : ReceberArquivo(a)
    \/ \E s \in (IF envUpsertUrl THEN SaidasUpsert ELSE {Nenhuma}) : ChamarUpsert(s)
    \/ RemoverTemp
    \/ ResponderArquivo

SpecArquivo == InitArquivo /\ [][NextArquivo]_vars

(***************************************************************************)
(* Claims about the pure functions.                                        *)
(***************************************************************************)
ResultadosLimitar == { saida.app, saida.aula07 }

\* C1 (as stated): for every history h with len(h) >= 1 and every
\* max_len >= 0, max_len = 0 included, limitar_historico(h, max_len) returns a
\* list whose element 0 is h[0] and whose length is at most max_len + 1.
C1_PreservaELimita ==
    (saida.estado = "feito" /\ Len(entrada.h) >= 1) =>
        \A r \in ResultadosLimitar :
            /\ r.raised = "none"
            /\ r.value[1] = entrada.h[1]
            /\ Len(r.value) <= entrada.n + 1

\* C7 (as stated): in both variants limitar_historico of an empty history
\* returns a single-element history holding the initial system message, for any
\* max length; it never fails and never returns an empty sequence.
C7_VazioRecuperaNasDuas ==
    (saida.estado = "feito" /\ entrada.h = <<>>) =>
        \A r \in ResultadosLimitar :
            /\ r.raised = "none"
            /\ Len(r.value) = 1
            /\ r.value[1].role = "system"

ChavesPrioridade ==
    <<"text", "answer", "data", "result", "output", "message", "response">>
ChavesPrioridadeAula07 == <<"text", "answer", "data">>

Candidatas(data, ordem) ==
    { i \in 1..Len(ordem) : HasKey(data, ordem[i]) /\ IsStr(Item(data, ordem[i])) }

\* the value of the first key of ordem that data holds with a string value
PrimeiraDaOrdem(data, ordem) ==
    Item(data, ordem[CHOOSE i \in Candidatas(data, ordem) :
                        \A j \in Candidatas(data, ordem) : i <= j])

\* C2 (as stated): in both variants extract_flowise_text of a mapping returns
\* the value of the first of text, answer, data, result, output, message,
\* response that is present with a string value.
C2_OrdemNasDuasVariantes ==
    (saida.estado = "feito" /\ IsDict(entrada)
        /\ Candidatas(entrada, ChavesPrioridade) # {}) =>
        /\ saida.app = PrimeiraDaOrdem(entrada, ChavesPrioridade)
        /\ saida.aula07 = PrimeiraDaOrdem(entrada, ChavesPrioridade)

\* C2 (amended): src/app.py follows the order text, answer, data, result,
\* output, message, response; src/aula07.py checks text, answer, data only and
\* serializes a mapping that holds none of the three with a string value, also
\* when result, output, message or response is present.
C2_OrdemPorVariante ==
    (saida.estado = "feito" /\ IsDict(entrada)) =>
        /\ Candidatas(entrada, ChavesPrioridade) # {} =>
              saida.app = PrimeiraDaOrdem(entrada, ChavesPrioridade)
        /\ Candidatas(entrada, ChavesPrioridadeAula07) # {} =>
              saida.aula07 = PrimeiraDaOrdem(entrada, ChavesPrioridadeAula07)
        /\ (Candidatas(entrada, ChavesPrioridadeAula07) = {} /\ Truthy(entrada)) =>
              saida.aula07 = JStr(json_dumps(entrada))

\* the mapping {"data": "B", "answer": "A"} has been normalized to "A" by
\* src/app.py, and {"result": "B"} to "B" by src/app.py and to its JSON text
\* by src/aula07.py
C2_Witness ==
    /\ saida.estado = "feito"
    /\ \/ /\ entrada = JDict(<< <<"data", JStr("B")>>, <<"answer", JStr("A")>> >>)
          /\ saida.app = JStr("A")
          /\ saida.aula07 = JStr("A")
       \/ /\ entrada = JDict(<< <<"result", JStr("B")>> >>)
          /\ saida.app = JStr("B")
          /\ saida.aula07 = JStr("{\"result\": \"B\"}")


(***************************************************************************)
(* Claims about the routes.                                                *)
(***************************************************************************)
EnviouMensagem == ult.rota = "enviar_mensagem"

\* the request carried no message: the member is missing, null, or a string
\* of whitespace only
MensagemVazia(m) == m.tipo # "str" \/ \A i \in 1..Len(m.chars) : m.chars[i] \in Brancos

\* what flowise_predict handed to the handler in the request handled last
Retorno == flowise_predict(variante, envChatUrl, ult.saida).res

\* the structured error {"error": {"message": <string>}}
FalhaEstruturada(r) ==
    /\ r.raised = "none"
    /\ IsDict(r.value)
    /\ HasKey(r.value, "error")
    /\ IsDict(Item(r.value, "error"))
    /\ HasKey(Item(r.value, "error"), "message")
    /\ IsStr(Item(Item(r.value, "error"), "message"))

MensagemDaFalha(r) == Item(Item(r.value, "error"), "message").s

MensagensTimeout ==
    { "Timeout" \o resto : resto \in { ": Flowise demorou para responder",
                                        ": Flowise demorou muito para responder" } }

\* C3 (as stated): whatever the upstream call of enviar_mensagem does, a 2xx
\* body with an error key that is no mapping included, the handler of
\* src/app.py answers with a JSON response that carries a message and a status
\* flag; no exception leaves flowise_predict or the handler.
C3_NenhumaExcecaoEscapa ==
    (variante = "app" /\ EnviouMensagem) =>
        /\ resp.tipo = "json"
        /\ resp.corpo.status \in {"erro", "sucesso"}
        /\ resp.corpo.resposta # ""

\* C4: a non-empty message whose upstream call ends in a structured error
\* (the timeout among them) is answered with status erro and a reply that
\* embeds the upstream message, 'Timeout' in it for a timeout; the stored
\* history is left as it was, so no assistant message is appended to it.
C4_FalhaNaoGuarda ==
    (EnviouMensagem /\ ~MensagemVazia(ult.mensagem) /\ FalhaEstruturada(Retorno)) =>
        /\ resp = RespJson(500, "Ops! Tive um problema: " \o MensagemDaFalha(Retorno), "erro")
        /\ ult.saida.tipo = "timeout" => MensagemDaFalha(Retorno) \in MensagensTimeout
        /\ session = ult.antes

\* a timeout has been answered on a session that holds earlier turns
C4_Witness ==
    /\ EnviouMensagem
    /\ ult.saida.tipo = "timeout"
    /\ resp.http = 500
    /\ Len(session) >= 3
    /\ session = ult.antes

\* C5: a missing, empty or whitespace-only message is answered 400 with
\* status erro, no upstream call is made and the stored history is unchanged.
C5_VaziaNaoMexe ==
    (EnviouMensagem /\ MensagemVazia(ult.mensagem)) =>
        /\ resp = RespJson(400, "Mensagem vazia", "erro")
        /\ ult.posts = 0
        /\ session = ult.antes

\* a whitespace-only message has been refused with the upstream configured and
\* earlier turns stored
C5_Witness ==
    /\ EnviouMensagem
    /\ ult.mensagem = [tipo |-> "str", chars |-> <<" ", "\n", "\t">>]
    /\ envChatUrl
    /\ resp.http = 400
    /\ Len(session) >= 3

\* the history the handler starts from, and the text of the upstream body
HistoricoDePartida ==
    IF ult.antes # <<>> THEN ult.antes ELSE criar_historico_inicial(variante, ult.hora)
TextoNormalizado == extract_flowise_text(variante, ult.saida.corpo)

\* element 0 of h followed by the at most n last elements of the rest
UltimasComSistema(h, n) ==
    LET k == IF Len(h) - 1 > n THEN n ELSE Len(h) - 1
    IN  [i \in 1..(k + 1) |-> IF i = 1 THEN h[1] ELSE h[Len(h) - k + i - 1]]

SucessoComTexto ==
    /\ EnviouMensagem
    /\ ~MensagemVazia(ult.mensagem)
    /\ ult.posts = 1
    /\ ult.saida.tipo = "ok"
    /\ ~TemErro(ult.saida.corpo)
    /\ Truthy(TextoNormalizado)

\* C6: after a non-empty message m on stored history h whose upstream call
\* returns a body with non-empty normalized text t, the stored history is the
\* trimmed (h followed by the user message m) followed by one assistant message
\* t, and the response is reply t with status sucesso.
C6_SucessoGuardaDuas ==
    SucessoComTexto =>
        /\ session =
             Append(UltimasComSistema(
                        Append(HistoricoDePartida,
                               Msg("user", Junta(strip(ult.mensagem.chars)))),
                        max_mensagens_padrao),
                    Msg("assistant", TextoNormalizado.s))
        /\ resp = RespJson(200, TextoNormalizado.s, "sucesso")

\* a first message on a fresh session has stored two messages after the system
\* message
C6_Witness ==
    /\ SucessoComTexto
    /\ ult.antes # <<>>
    /\ Len(ult.antes) = 1
    /\ Len(session) = 3
    /\ session[2] = Msg("user", "a")
    /\ session[3] = Msg("assistant", "A")

SoOPrimeiroEhSistema ==
    /\ session[1].role = "system"
    /\ \A i \in 2..Len(session) : session[i].role # "system"

\* C8 (as stated): after any sequence of index, enviar_mensagem and
\* limpar_historico requests the stored history is non-empty, its element 0 is
\* the system message created by the most recent index or limpar_historico
\* request, and no later element has role system.
C8_SistemaDoUltimoReset ==
    ult.rota # "nenhuma" =>
        /\ session # <<>>
        /\ criado.por \in {"index", "limpar_historico"}
        /\ session[1] = criado.msg
        /\ SoOPrimeiroEhSistema

\* C8 (amended): whenever a history is stored it is non-empty, its element 0
\* has role system and is the system message of the request that created the
\* stored history (the most recent index or limpar_historico request or, when
\* there was none, the first enviar_mensagem request that succeeded), and no
\* later element has role system; no history is stored before such a request.
C8_SistemaDeQuemCriou ==
    /\ session = <<>> => criado.por = "ninguem"
    /\ session # <<>> =>
          /\ criado.por # "ninguem"
          /\ session[1] = criado.msg
          /\ SoOPrimeiroEhSistema

\* the history was trimmed, later than it was created, and kept its system
\* message
C8_Witness ==
    /\ EnviouMensagem
    /\ Len(ult.antes) = max_mensagens_padrao + 2
    /\ Len(session) = max_mensagens_padrao + 2
    /\ session[1] = criado.msg
    /\ ult.hora > 0
    /\ session[1] = criar_historico_inicial(variante, 0)[1]

\* C10: the stored history never holds more than max_mensagens + 2 = 22
\* messages: the trim bounds the list to 21 and the assistant message is
\* appended after it.
C10_NoMaximo22 == Len(session) <= max_mensagens_padrao + 2

\* a stored history of 22 messages
C10_Witness ==
    /\ EnviouMensagem
    /\ resp.http = 200
    /\ Len(session) = max_mensagens_padrao + 2

\* the enviar_arquivo request that saved its upload is about to answer, or
\* has answered
UploadTratado ==
    \/ pcArq = "a_responder"
    \/ pcArq = "ocioso" /\ respArq.tipo = "json" /\ respArq.http = 200

\* C9: once the upload is saved, flowise_upsert is called exactly once with
\* it (making at most one HTTP post) and the temporary file is gone before the
\* response is returned, whether the upsert succeeds, finds no URL configured
\* or fails.
C9_UmaChamadaESemTemp ==
    /\ UploadTratado =>
          /\ nUpsert = 1
          /\ nPosts <= 1
          /\ arq.filename \notin disco
    /\ pcArq \in {"salvo", "chamado"} => arq.filename \in disco

\* an upload whose upsert failed on the network has been answered
C9_Witness ==
    /\ pcArq = "ocioso"
    /\ respArq.tipo = "json"
    /\ respArq.http = 200
    /\ respArq.corpo = ErroSimples("Connection refused")
    /\ nUpsert = 1
    /\ nPosts = 1
    /\ arq.filename \notin disco

=============================================================================
